---- MODULE Spec2Model ----
(***************************************************************************)
(* Model of the asset_keeper storage core: the FileStore, AssetStore and   *)
(* ImageStore (src/stores), the KnownExtension policy and the Data         *)
(* coordinator (src/data.rs).                                              *)
(*                                                                         *)
(* Text is modelled as a sequence of one-character strings, so that        *)
(* lower-casing, splitting a path and formatting a number are computed.    *)
(* An Option<T> is modelled as a set with at most one element:             *)
(* None is {} and Some(x) is {x}.                                          *)
(***************************************************************************)
EXTENDS Integers, Sequences, FiniteSets, TLC

VARIABLES
    constructed,     \* Data::new has returned Ok(Data)
    arg_save_dir,    \* Some(save_dir argument of the successful Data::new)
    arg_files_dir,   \* Some(files_dir argument of the successful Data::new)
    save_dir,        \* Data.save_dir
    files_dir,       \* Data.files_dir
    dirs,            \* the directories that exist on disk
    disk,            \* the files in the managed directories: <<dir, name>> -> content
    files,           \* FileStore.files : FileId -> File
    files_next_id,   \* FileStore.next_id
    assets,          \* AssetStore.assets : AssetId -> Asset
    assets_next_id,  \* AssetStore.next_id
    images,          \* ImageStore.files : ImageId -> Image
    images_next_id,  \* ImageStore.next_id
    file_hist,       \* what each new_file call returned, in call order
    asset_hist,      \* what each new_asset call returned, in call order
    file_removed,    \* the FileIds a remove call has taken out of the FileStore
    asset_removed,   \* the AssetIds a remove call has taken out of the AssetStore
    import_log,      \* the outcome of each add_asset_from_disk call, in call order
    last             \* the last operation: its arguments, its result, the state before

vars == <<constructed, arg_save_dir, arg_files_dir, save_dir, files_dir, dirs, disk,
          files, files_next_id, assets, assets_next_id, images, images_next_id,
          file_hist, asset_hist, file_removed, asset_removed, import_log, last>>

storeVars == <<files, files_next_id, assets, assets_next_id>>
imageVars == <<images, images_next_id>>
dataVars == <<constructed, arg_save_dir, arg_files_dir, save_dir, files_dir, dirs, disk>>
histVars == <<file_hist, asset_hist, file_removed, asset_removed, import_log>>

----------------------------------------------------------------------------
(* Bounds of the model *)

\* The number of add_asset_from_disk calls on the Data.
MaxImports == 3
\* The number of new_file calls on a FileStore used on its own.
MaxFiles == 3
\* The number of new_asset calls on an AssetStore used on its own.
MaxAssets == 2
\* The longest extension string given to KnownExtension::from_str.
MaxExtLen == 3
\* The number of images an ImageStore takes in.
MaxImages == 3

----------------------------------------------------------------------------
(* Text *)

None == {}
Some(x) == {x}
Unwrap(o) == CHOOSE x \in o : TRUE

\* "\u{FF50}" stands for a character outside ASCII (FULLWIDTH LATIN SMALL LETTER P),
\* "\xFF" for a byte that is not valid UTF-8 (an OsStr can hold it, a &str cannot).
NonAsciiP == "\\u{FF50}"
\* "\u{FF30}" stands for FULLWIDTH LATIN CAPITAL LETTER P, an upper-case letter
\* outside ASCII, whose lower case is "\u{FF50}".
FullwidthCapitalP == "\\u{FF30}"
InvalidByte == "\\xFF"

DecimalDigits == <<"0", "1", "2", "3", "4", "5", "6", "7", "8", "9">>

UpperToLower == [c \in {"P", "N", "G", "A"} |->
                    CASE c = "P" -> "p" [] c = "N" -> "n" [] c = "G" -> "g" [] c = "A" -> "a"]

\* str::to_ascii_lowercase: ASCII upper-case letters are mapped, all else is kept.
to_ascii_lowercase(s) ==
    [i \in 1..Len(s) |-> IF s[i] \in DOMAIN UpperToLower THEN UpperToLower[s[i]] ELSE s[i]]

\* FileId and AssetId wrap a u32. A u32 is written here as the 32-bit integer
\* with the same bits: 0 .. 2^31 - 1 stand for themselves and a negative n
\* stands for 2^32 + n, so that u32::MAX, 2^32 - 1, is -1, and the u32 that
\* follows n without regard to overflow is n + 1.
U32Max == -1

\* id.0 + 1 on a u32: an arithmetic overflow at u32::MAX, which panics in a
\* build with overflow checks (the debug profile) and wraps to 0 in one without
\* (the release profile); no overflow elsewhere.
add_one_outcomes(next) == IF next = U32Max THEN {"panic", "wrap"} ELSE {"ok"}

\* str::to_lowercase: every character with a lower-case form in Unicode is
\* mapped, the ASCII letters as by to_ascii_lowercase.
to_lowercase(s) ==
    [i \in 1..Len(s) |->
        IF s[i] \in DOMAIN UpperToLower THEN UpperToLower[s[i]]
        ELSE IF s[i] = FullwidthCapitalP THEN NonAsciiP
        ELSE s[i]]

\* u32::to_string, as FileId::to_string calls it. For a negative n, which
\* stands for 2^32 + n = 10 * 429496729 + (6 + n), the quotient and the
\* remainder by ten are taken of that value.
RECURSIVE FileId_to_string(_)
FileId_to_string(n) ==
    IF n < 0
    THEN FileId_to_string(429496729 + ((6 + n) \div 10))
            \o <<DecimalDigits[((6 + n) % 10) + 1]>>
    ELSE IF n < 10 THEN <<DecimalDigits[n + 1]>>
    ELSE FileId_to_string(n \div 10) \o <<DecimalDigits[(n % 10) + 1]>>

----------------------------------------------------------------------------
(* std::path::Path, as far as KnownExtension::from_path and File::file_name use it *)

\* The path split at "/" into its pieces (empty pieces included).
RECURSIVE SplitAtSlash(_)
SplitAtSlash(p) ==
    IF \A i \in 1..Len(p) : p[i] # "/" THEN <<p>>
    ELSE LET k == CHOOSE i \in 1..Len(p) : p[i] = "/" /\ \A j \in 1..(i - 1) : p[j] # "/"
         IN  <<SubSeq(p, 1, k - 1)>> \o SplitAtSlash(SubSeq(p, k + 1, Len(p)))

\* Path::file_name: the last component if it is a normal one. Empty pieces and
\* "." pieces are no components at the end of a path; a last ".." is not normal.
Path_file_name(p) ==
    LET pieces == SplitAtSlash(p)
        normal == SelectSeq(pieces, LAMBDA c : c # <<>> /\ c # <<".">>)
    IN  IF normal = <<>> THEN None
        ELSE IF normal[Len(normal)] = <<".", ".">> THEN None
        ELSE Some(normal[Len(normal)])

\* The index of the last "." of a file name, 0 if it has none.
LastDot(f) ==
    IF \A i \in 1..Len(f) : f[i] # "." THEN 0
    ELSE CHOOSE i \in 1..Len(f) : f[i] = "." /\ \A j \in (i + 1)..Len(f) : f[j] # "."

\* Path::extension: the part of the file name after its last ".", None if there is
\* no file name, no "." in it, or nothing in front of the last ".".
Path_extension(p) ==
    LET name == Path_file_name(p)
    IN  IF name = None THEN None
        ELSE LET f == Unwrap(name)
                 k == LastDot(f)
             IN  IF k <= 1 THEN None ELSE Some(SubSeq(f, k + 1, Len(f)))

\* OsStr::to_str: None if the text is not valid UTF-8.
OsStr_to_str(s) ==
    IF \E i \in 1..Len(s) : s[i] = InvalidByte THEN None ELSE Some(s)

\* PathBuf::with_extension on a path that is one file name: the stem, and
\* "." and the extension if the extension is not empty.
with_extension(f, ext) ==
    LET k == LastDot(f)
        stem == IF k <= 1 THEN f ELSE SubSeq(f, 1, k - 1)
    IN  IF ext = <<>> THEN stem ELSE stem \o <<".">> \o ext

----------------------------------------------------------------------------
(* KnownExtension *)

Png == "Png"
KnownExtensions == {Png}

\* A from_str that compares without lower-casing.
from_str_case_sensitive(string) ==
    IF string = <<"p", "n", "g">> THEN Some(Png) ELSE None

\* KnownExtension::from_str
from_str(string) ==
    IF to_ascii_lowercase(string) = <<"p", "n", "g">> THEN Some(Png) ELSE None

\* A from_path that accepts whatever extension the path has.
from_path_any_extension(path) ==
    IF Path_extension(path) = None THEN None ELSE Some(Png)

\* KnownExtension::from_path
from_path(path) ==
    LET ext == Path_extension(path)
        os == IF ext = None THEN <<>> ELSE Unwrap(ext)
        str == OsStr_to_str(os)
    IN  from_str(IF str = None THEN <<>> ELSE Unwrap(str))

\* KnownExtension::to_str
to_str(extension) == CASE extension = Png -> <<"p", "n", "g">>

----------------------------------------------------------------------------
(* File and FileStore *)

\* A file_name built from the title instead of the id.
File_file_name_from_title(file) ==
    with_extension(<<file.title>>, to_str(file.extension))

\* File::file_name
File_file_name(file) ==
    with_extension(FileId_to_string(file.id), to_str(file.extension))

\* A File built without the title it was given.
NewFileRecord_no_title(id, title, extension) ==
    [id |-> id, title |-> "", extension |-> extension, system_tags |-> {}]

\* The File that new_file builds.
NewFileRecord(id, title, extension) ==
    [id |-> id, title |-> title, extension |-> extension, system_tags |-> {}]

\* HashMap::insert
MapInsert(map, id, item) ==
    [k \in DOMAIN map \cup {id} |-> IF k = id THEN item ELSE map[k]]

\* HashMap::remove (the map it leaves)
MapRemove(map, id) == [k \in DOMAIN map \ {id} |-> map[k]]

\* HashMap::get
MapGet(map, id) == IF id \in DOMAIN map THEN Some(map[id]) ELSE None

\* FileStore::new_file: the store's map after the call.
new_file_files(fs, next, title, extension) ==
    MapInsert(fs, next, NewFileRecord(next, title, extension))

\* A new_file that does not advance next_id.
new_file_next_id_stuck(next) == next

\* FileStore::new_file: the store's next_id after the call, FileId(id.0 + 1),
\* when the addition did not panic: the next u32, which is 0 after U32Max.
new_file_next_id(next) == next + 1

\* FileStore::new_file: the (id, file name) it returns.
new_file_result(next, title, extension) ==
    <<next, File_file_name(NewFileRecord(next, title, extension))>>

\* IndexedStore::get for FileStore
FileStore_get(fs, id) == MapGet(fs, id)

\* IndexedStore::count for FileStore
FileStore_count(fs) == Cardinality(DOMAIN fs)

\* A remove that leaves the record in the map.
FileStore_remove_nothing(fs, id) == fs

\* A remove that empties the store.
FileStore_remove_clears(fs, id) == <<>>

\* IndexedStore::remove for FileStore: the map it leaves.
FileStore_remove(fs, id) == MapRemove(fs, id)

----------------------------------------------------------------------------
(* Asset and AssetStore *)

\* An Asset that refers to the first file instead of the one it was given.
NewAssetRecord_first_file(title, file) == [title |-> title, file |-> 0]

\* The Asset that new_asset builds.
NewAssetRecord(title, file) == [title |-> title, file |-> file]

\* A new_asset that stores the asset only if the first file handed out is given.
new_asset_assets_validating(as, next, title, file) ==
    IF file = 0 THEN MapInsert(as, next, NewAssetRecord(title, file)) ELSE as

\* AssetStore::new_asset: the store's map after the call.
new_asset_assets(as, next, title, file) ==
    MapInsert(as, next, NewAssetRecord(title, file))

\* A new_asset that does not advance next_id.
new_asset_next_id_stuck(next) == next

\* AssetStore::new_asset: the store's next_id after the call, AssetId(id.0 + 1),
\* when the addition did not panic: the next u32, which is 0 after U32Max.
new_asset_next_id(next) == next + 1

\* IndexedStore::get for AssetStore
AssetStore_get(as, id) == MapGet(as, id)

\* IndexedStore::count for AssetStore
AssetStore_count(as) == Cardinality(DOMAIN as)

\* IndexedStore::remove for AssetStore: the map it leaves.
AssetStore_remove(as, id) == MapRemove(as, id)

\* A FileStore::remove that takes the assets of the removed file with it.
FileStore_remove_cascade(as, id) ==
    [a \in {x \in DOMAIN as : as[x].file # id} |-> as[a]]

\* IndexedStore::remove for FileStore: the assets of an AssetStore after it.
\* The call has the FileStore alone (&mut self), and an Asset holds the FileId
\* as a plain value, so the AssetStore stays as it is.
FileStore_remove_assets(as, id) == as

----------------------------------------------------------------------------
(* Image and ImageStore *)

IMAGE_EXTENSIONS == {<<"p", "n", "g">>}

\* A path_has_image_extension that takes every extension for an image's.
path_has_image_extension_any(path) == Path_extension(path) # None

\* ImageStore::path_has_image_extension
path_has_image_extension(path) ==
    LET ext == Path_extension(path)
    IN  IF ext = None THEN FALSE
        ELSE LET string == OsStr_to_str(Unwrap(ext))
             IN  IF string = None THEN FALSE
                 ELSE to_lowercase(Unwrap(string)) \in IMAGE_EXTENSIONS

\* The Image that new_image builds.
NewImageRecord(path) == [path |-> path]

\* ImageStore::new_image on an image path: the store's map after the call.
new_image_files(is, next, path) == MapInsert(is, next, NewImageRecord(path))

\* ImageStore::new_image on an image path: the store's next_id after the call,
\* ImageId(id.0 + 1), when the addition did not panic.
new_image_next_id(next) == next + 1

\* IndexedStore::get for ImageStore
ImageStore_get(is, id) == MapGet(is, id)

\* IndexedStore::count for ImageStore
ImageStore_count(is) == Cardinality(DOMAIN is)

----------------------------------------------------------------------------
(* The inputs the operations are called with *)

Titles == {"My Title", "!@@#$@#@"}

\* The directories Data::new is given: the save directory, and a files directory
\* that is the save directory or lies inside it.
SaveDirs == {"ak"}
FilesDirs == {"ak", "ak/files"}
Ancestors(d) == IF d = "ak/files" THEN {"ak"} ELSE {}

\* Source paths given to add_asset_from_disk, and which of them name a file
\* that exists and can be read.
Path_a_png == <<"a", ".", "p", "n", "g">>
Path_a_PNG == <<"d", "/", "a", ".", "P", "N", "G">>
Path_gone_png == <<"g", ".", "p", "n", "g">>
Path_a_pdf == <<"a", ".", "p", "d", "f">>
Path_noext == <<"d", ".", "p", "n", "g", "/", "a">>
ImportPaths == {Path_a_png, Path_a_PNG, Path_gone_png, Path_a_pdf, Path_noext}
ExistingSources == {Path_a_png, Path_a_PNG, Path_a_pdf, Path_noext}

\* The ids get and remove are called with: the first two a store hands out and
\* one that it never hands out.
ProbeIds == {0, 1, MaxFiles + 1}
\* The FileIds new_asset is called with: the first one allocated (live or removed)
\* and one that no FileStore ever handed out.
AssetFileArgs == {0, MaxFiles + 1}

\* The ids of the File records File::file_name is called on.
SampleIds == {0, 7, 9, 10, 99, 100, 1000, 65535, 2147483647}

\* The characters of the extension strings given to KnownExtension::from_str.
ExtAlphabet == {"p", "n", "g", "P", "N", "G", NonAsciiP}
\* Every string over ExtAlphabet of at most MaxExtLen characters, and the
\* extensions the unit tests name.
ExtStrings ==
    UNION {[1..n -> ExtAlphabet] : n \in 0..MaxExtLen}
    \cup { <<"p", "d", "f">>, <<"x", "c", "f">>, <<"j", "p", "g">>,
           <<".", "p", "n", "g">>, <<"p", "n", "g", " ">> }

\* Paths given to KnownExtension::from_path.
ClassifyPaths ==
    ImportPaths \cup
    { <<>>,
      <<"/">>,
      <<".">>,
      <<".", ".">>,
      <<".", "p", "n", "g">>,
      <<"p", "n", "g">>,
      <<"a", ".">>,
      <<"a", ".", "p", "n", "g", ".">>,
      <<"a", ".", "p", "n", "g", "/">>,
      <<"a", ".", "p", "n", "g", "/", ".">>,
      <<"a", ".", "p", "n", "g", "/", ".", ".">>,
      <<"a", ".", "p", "d", "f", ".", "p", "N", "g">>,
      <<"a", ".", "p", "n", "g", ".", "p", "d", "f">>,
      <<"a", ".", ".", "P", "n", "G">>,
      <<"a", ".", NonAsciiP, "n", "g">>,
      <<"a", ".", "p", "n", "g", InvalidByte>>,
      <<"a", ".", InvalidByte>>,
      <<InvalidByte, ".", "p", "n", "g">> }

\* Paths given to ImageStore::new_image: those of its unit tests, png in other
\* capitalisations and positions, and paths without a usable extension.
Path_test_pdf == <<"t", "e", "s", "t", ".", "p", "d", "f">>
Path_blaargh == <<"b", "l", "a", "a", "r", "g", "h", "!">>
Path_bla_jpg == <<"i", "m", "a", "g", "e", "/", "t", "e", "s", "t", "/",
                  "b", "l", "a", ".", "j", "p", "g">>
Path_images_test_png == <<"i", "m", "a", "g", "e", "s", "/", "t", "e", "s", "t", ".",
                          "p", "n", "g">>
Path_image_PNG == <<"i", "m", "a", "g", "e", ".", "P", "N", "G">>
ImagePaths ==
    { Path_test_pdf, Path_blaargh, Path_bla_jpg, Path_images_test_png, Path_image_PNG,
      Path_a_png, Path_noext,
      <<>>,
      <<".", "p", "n", "g">>,
      <<"p", "n", "g">>,
      <<"a", ".">>,
      <<"a", ".", "p", "n", "g", ".">>,
      <<"a", ".", "p", "n", "g", "/", ".">>,
      <<"a", ".", "p", "n", "g", "/", ".", ".">>,
      <<"a", ".", "p", "d", "f", ".", "p", "N", "g">>,
      <<"a", ".", "p", "n", "g", ".", "p", "d", "f">>,
      <<"a", ".", "p", "n", "g", " ">>,
      <<"a", ".", "P", "n", "G">>,
      <<"a", ".", NonAsciiP, "n", "g">>,
      <<"a", ".", FullwidthCapitalP, "N", "G">>,
      <<"a", ".", "p", "n", "g", InvalidByte>>,
      <<InvalidByte, ".", "p", "n", "g">> }

----------------------------------------------------------------------------
(* The record of the last operation *)

Snapshot ==
    [files |-> files, files_next_id |-> files_next_id,
     assets |-> assets, assets_next_id |-> assets_next_id,
     images |-> images, images_next_id |-> images_next_id,
     disk |-> disk, dirs |-> dirs]

\* pc is the position inside a call that is taken step by step ("done" when no
\* call is under way) and trace the steps that call has taken so far.
NoCall ==
    [op |-> "none", title |-> "", text |-> <<>>, extension |-> None, id |-> None,
     copy |-> "", result |-> "", ret |-> None, ret_path |-> None, item |-> None, written |-> {},
     pc |-> "done", trace |-> <<>>, items |-> {},
     pre |-> [files |-> <<>>, files_next_id |-> 0, assets |-> <<>>,
              assets_next_id |-> 0, images |-> <<>>, images_next_id |-> 0,
              disk |-> <<>>, dirs |-> {}]]

----------------------------------------------------------------------------
(* Data *)

\* A create_dir_all that reports success and creates nothing.
create_dir_all_nothing(existing, d) == existing

\* std::fs::create_dir_all: the directories that exist after it succeeded.
create_dir_all(existing, d) == existing \cup {d} \cup Ancestors(d)

\* The Data that Data::new builds from its arguments: its two directory fields.
Data_new_save_dir(save, filesd) == save
Data_new_files_dir(save, filesd) == save

\* Data::new(save_dir, files_dir) returning Ok
DataNewOk(save, filesd) ==
    /\ ~constructed
    /\ constructed' = TRUE
    /\ arg_save_dir' = Some(save)
    /\ arg_files_dir' = Some(filesd)
    /\ dirs' = create_dir_all(create_dir_all(dirs, save), filesd)
    /\ save_dir' = Some(Data_new_save_dir(save, filesd))
    /\ files_dir' = Some(Data_new_files_dir(save, filesd))
    /\ files' = <<>>
    /\ files_next_id' = 0
    /\ assets' = <<>>
    /\ assets_next_id' = 0
    /\ last' = [NoCall EXCEPT !.op = "Data::new", !.result = "Ok", !.pre = Snapshot]
    /\ UNCHANGED <<disk, histVars>>
    /\ UNCHANGED imageVars

\* Data::new(save_dir, files_dir) returning Err: one of the two create_dir_all
\* calls failed (the first, or the second after the first succeeded).
DataNewErr(save, filesd) ==
    /\ ~constructed
    /\ \/ dirs' = dirs
       \/ dirs' = create_dir_all(dirs, save)
    /\ last' = [NoCall EXCEPT !.op = "Data::new", !.result = "Err", !.pre = Snapshot]
    /\ UNCHANGED <<constructed, arg_save_dir, arg_files_dir, save_dir, files_dir, disk,
                   storeVars, histVars>>
    /\ UNCHANGED imageVars

\* The outcomes std::fs::copy(file, full_dest) can have: "copied" (Ok), or an
\* error that left the destination untouched ("failed": the source cannot be
\* read, the destination cannot be opened) or partly written ("partial").
CopyOutcomes(file) ==
    IF file \in ExistingSources THEN {"copied", "failed", "partial"} ELSE {"failed"}

\* The managed files after std::fs::copy(file, dir/dest) ended with outcome.
CopyDisk(d, dir, dest, file, outcome) ==
    CASE outcome = "copied" -> MapInsert(d, <<dir, dest>>, file)
      [] outcome = "partial" -> MapInsert(d, <<dir, dest>>, <<"partial">>)
      [] outcome = "failed" -> d

\* An add_asset_from_disk that returns the error without the removal.
RollBack_forgotten(fs, file_id) == fs

\* An add_asset_from_disk that removes the record allocated before its own.
RollBack_previous(fs, file_id) == FileStore_remove(fs, file_id - 1)

\* Data::add_asset_from_disk: what is left in the FileStore when the copy failed.
RollBack(fs, file_id) == FileStore_remove(fs, file_id)

\* Data::add_asset_from_disk(title, file), extension not known: Err, nothing done.
AddAssetUnsupported(title, file) ==
    /\ constructed
    /\ Len(import_log) < MaxImports
    /\ from_path(file) = None
    /\ import_log' = Append(import_log, "UnsupportedExtension")
    /\ last' = [NoCall EXCEPT !.op = "add_asset_from_disk", !.title = title,
                              !.text = file, !.result = "UnsupportedExtension",
                              !.pre = Snapshot]
    /\ UNCHANGED <<dataVars, storeVars, file_hist, asset_hist, file_removed, asset_removed>>
    /\ UNCHANGED imageVars

\* Data::add_asset_from_disk(title, file), extension known: new_file, the copy,
\* then new_asset (Ok) or the removal of the file record (Err). A panic of the
\* addition in new_file or in new_asset ends the call where it happens.
AddAssetKnown(title, file) ==
    /\ constructed
    /\ Len(import_log) < MaxImports
    /\ from_path(file) # None
    /\ LET extension == Unwrap(from_path(file))
           res == new_file_result(files_next_id, title, extension)
           file_id == res[1]
           dest == res[2]
           files1 == new_file_files(files, files_next_id, title, extension)
           full_dest == <<Unwrap(files_dir), dest>>
           call == [NoCall EXCEPT !.op = "add_asset_from_disk", !.title = title,
                                  !.text = file, !.extension = Some(extension),
                                  !.pre = Snapshot]
       IN  \E sum_file \in add_one_outcomes(files_next_id),
              outcome \in CopyOutcomes(file),
              sum_asset \in add_one_outcomes(assets_next_id) :
             IF sum_file = "panic"
             THEN /\ files' = files1
                  /\ last' = [call EXCEPT !.result = "panic"]
                  /\ UNCHANGED <<files_next_id, file_hist, disk, assets, assets_next_id,
                                 asset_hist, file_removed, import_log>>
             ELSE /\ files_next_id' = new_file_next_id(files_next_id)
                  /\ file_hist' = Append(file_hist,
                                         [id |-> file_id, title |-> title,
                                          extension |-> extension, path |-> dest])
                  /\ disk' = CopyDisk(disk, Unwrap(files_dir), dest, file, outcome)
                  /\ IF outcome = "copied"
                     THEN /\ files' = files1
                          /\ assets' = new_asset_assets(assets, assets_next_id, title, file_id)
                          /\ file_removed' = file_removed
                          /\ IF sum_asset = "panic"
                             THEN /\ last' = [call EXCEPT !.result = "panic",
                                                  !.copy = outcome, !.id = Some(file_id),
                                                  !.ret_path = Some(dest),
                                                  !.written = {full_dest}]
                                  /\ UNCHANGED <<assets_next_id, asset_hist, import_log>>
                             ELSE /\ assets_next_id' = new_asset_next_id(assets_next_id)
                                  /\ asset_hist' = Append(asset_hist,
                                                     [id |-> assets_next_id, title |-> title,
                                                      file |-> file_id])
                                  /\ import_log' = Append(import_log, "Ok")
                                  /\ last' = [call EXCEPT !.result = "Ok",
                                                  !.copy = outcome, !.id = Some(file_id),
                                                  !.ret = Some(assets_next_id),
                                                  !.ret_path = Some(dest),
                                                  !.written = {full_dest}]
                     ELSE /\ files' = RollBack(files1, file_id)
                          /\ file_removed' = file_removed \cup (DOMAIN files1 \ DOMAIN files')
                          /\ import_log' = Append(import_log, "CopyFailed")
                          /\ last' = [call EXCEPT !.result = "CopyFailed",
                                          !.copy = outcome, !.id = Some(file_id),
                                          !.ret_path = Some(dest),
                                          !.written = IF outcome = "partial"
                                                      THEN {full_dest} ELSE {}]
                          /\ UNCHANGED <<assets, assets_next_id, asset_hist>>
    /\ UNCHANGED <<constructed, arg_save_dir, arg_files_dir, save_dir, files_dir, dirs,
                   asset_removed>>
    /\ UNCHANGED imageVars

\* Data::asset_count
DataAssetCount ==
    /\ constructed
    /\ last' = [NoCall EXCEPT !.op = "asset_count",
                              !.ret = Some(AssetStore_count(assets)), !.pre = Snapshot]
    /\ UNCHANGED <<dataVars, storeVars, histVars>>
    /\ UNCHANGED imageVars

\* Data::assets_iter: the (id, asset) pairs the iterator yields, in no order.
DataAssetsIter ==
    /\ constructed
    /\ last' = [NoCall EXCEPT !.op = "assets_iter",
                              !.items = {<<id, assets[id]>> : id \in DOMAIN assets},
                              !.pre = Snapshot]
    /\ UNCHANGED <<dataVars, storeVars, histVars>>
    /\ UNCHANGED imageVars

\* Data::get_asset(id)
DataGetAsset(id) ==
    /\ constructed
    /\ last' = [NoCall EXCEPT !.op = "get_asset", !.id = Some(id),
                              !.item = AssetStore_get(assets, id), !.pre = Snapshot]
    /\ UNCHANGED <<dataVars, storeVars, histVars>>
    /\ UNCHANGED imageVars

\* Before Data::new: nothing constructed; the save directory, or both
\* directories, may exist already.
Init ==
    /\ constructed = FALSE
    /\ arg_save_dir = None
    /\ arg_files_dir = None
    /\ save_dir = None
    /\ files_dir = None
    /\ dirs \in {{}, {"ak"}, {"ak", "ak/files"}}
    /\ disk = <<>>
    /\ files = <<>>
    /\ files_next_id = 0
    /\ assets = <<>>
    /\ assets_next_id = 0
    /\ file_hist = <<>>
    /\ asset_hist = <<>>
    /\ file_removed = {}
    /\ asset_removed = {}
    /\ import_log = <<>>
    /\ images = <<>>
    /\ images_next_id = 0
    /\ last = NoCall

Next ==
    \/ \E s \in SaveDirs, f \in FilesDirs : DataNewOk(s, f)
    \/ \E s \in SaveDirs, f \in FilesDirs : DataNewErr(s, f)
    \/ \E t \in Titles, p \in ImportPaths : AddAssetUnsupported(t, p)
    \/ \E t \in Titles, p \in ImportPaths : AddAssetKnown(t, p)
    \/ DataAssetCount
    \/ DataAssetsIter
    \/ \E id \in ProbeIds : DataGetAsset(id)

\* The Data coordinator: one Data, used through its public operations.
Spec == Init /\ [][Next]_vars

----------------------------------------------------------------------------
(* Data::add_asset_from_disk taken one statement at a time *)

\* A coordinator that goes on to new_asset whatever the copy returned.
StepAfterCopy_always_asset(outcome) == "new_asset"

\* Where add_asset_from_disk goes after std::fs::copy returned: into the
\* Err arm of the match, or past the match to new_asset.
StepAfterCopy(outcome) == IF outcome = "copied" THEN "new_asset" ELSE "remove"

\* add_asset_from_disk(title, file) is called.
ImportCall(title, file) ==
    /\ constructed
    /\ last.pc = "done"
    /\ Len(import_log) < MaxImports
    /\ last' = [NoCall EXCEPT !.op = "add_asset_from_disk", !.title = title,
                              !.text = file, !.pre = Snapshot, !.pc = "classify"]
    /\ UNCHANGED <<dataVars, storeVars, histVars>>
    /\ UNCHANGED imageVars

\* let extension = KnownExtension::from_path(file).context(...)?
ImportClassify ==
    /\ last.pc = "classify"
    /\ IF from_path(last.text) = None
       THEN /\ last' = [last EXCEPT !.pc = "done", !.result = "UnsupportedExtension",
                                    !.trace = Append(@, "classify")]
            /\ import_log' = Append(import_log, "UnsupportedExtension")
       ELSE /\ last' = [last EXCEPT !.pc = "new_file",
                                    !.extension = from_path(last.text),
                                    !.trace = Append(@, "classify")]
            /\ import_log' = import_log
    /\ UNCHANGED <<dataVars, storeVars, file_hist, asset_hist, file_removed, asset_removed>>
    /\ UNCHANGED imageVars

\* let (file_id, dest) = self.files.new_file(title, extension)
ImportNewFile ==
    /\ last.pc = "new_file"
    /\ LET extension == Unwrap(last.extension)
           res == new_file_result(files_next_id, last.title, extension)
       IN  /\ files' = new_file_files(files, files_next_id, last.title, extension)
           /\ \E sum \in add_one_outcomes(files_next_id) :
                IF sum = "panic"
                THEN /\ last' = [last EXCEPT !.pc = "done", !.result = "panic",
                                             !.trace = Append(@, "new_file")]
                     /\ UNCHANGED <<files_next_id, file_hist>>
                ELSE /\ files_next_id' = new_file_next_id(files_next_id)
                     /\ file_hist' = Append(file_hist,
                                        [id |-> res[1], title |-> last.title,
                                         extension |-> extension, path |-> res[2]])
                     /\ last' = [last EXCEPT !.pc = "copy", !.id = Some(res[1]),
                                             !.ret_path = Some(res[2]),
                                             !.trace = Append(@, "new_file")]
    /\ UNCHANGED <<dataVars, assets, assets_next_id, asset_hist, file_removed,
                   asset_removed, import_log>>
    /\ UNCHANGED imageVars

\* match std::fs::copy(file, &self.files_dir.join(dest))
ImportCopy ==
    /\ last.pc = "copy"
    /\ \E outcome \in CopyOutcomes(last.text) :
         /\ disk' = CopyDisk(disk, Unwrap(files_dir), Unwrap(last.ret_path), last.text,
                             outcome)
         /\ last' = [last EXCEPT !.pc = StepAfterCopy(outcome), !.copy = outcome,
                         !.written = IF outcome = "failed" THEN {}
                                     ELSE {<<Unwrap(files_dir), Unwrap(last.ret_path)>>},
                         !.trace = Append(@, "copy")]
    /\ UNCHANGED <<constructed, arg_save_dir, arg_files_dir, save_dir, files_dir, dirs,
                   storeVars, histVars>>
    /\ UNCHANGED imageVars

\* self.files.remove(&file_id), in the Err arm
ImportRemove ==
    /\ last.pc = "remove"
    /\ files' = RollBack(files, Unwrap(last.id))
    /\ file_removed' = file_removed \cup (DOMAIN files \ DOMAIN files')
    /\ last' = [last EXCEPT !.pc = "return_err", !.trace = Append(@, "remove")]
    /\ UNCHANGED <<dataVars, files_next_id, assets, assets_next_id, file_hist,
                   asset_hist, asset_removed, import_log>>
    /\ UNCHANGED imageVars

\* return Err(e).with_context(...), in the Err arm
ImportReturnErr ==
    /\ last.pc = "return_err"
    /\ import_log' = Append(import_log, "CopyFailed")
    /\ last' = [last EXCEPT !.pc = "done", !.result = "CopyFailed",
                            !.trace = Append(@, "return")]
    /\ UNCHANGED <<dataVars, storeVars, file_hist, asset_hist, file_removed, asset_removed>>
    /\ UNCHANGED imageVars

\* let asset_id = self.assets.new_asset(title, file_id)
ImportNewAsset ==
    /\ last.pc = "new_asset"
    /\ assets' = new_asset_assets(assets, assets_next_id, last.title, Unwrap(last.id))
    /\ \E sum \in add_one_outcomes(assets_next_id) :
         IF sum = "panic"
         THEN /\ last' = [last EXCEPT !.pc = "done", !.result = "panic",
                                      !.trace = Append(@, "new_asset")]
              /\ UNCHANGED <<assets_next_id, asset_hist>>
         ELSE /\ assets_next_id' = new_asset_next_id(assets_next_id)
              /\ asset_hist' = Append(asset_hist,
                                      [id |-> assets_next_id, title |-> last.title,
                                       file |-> Unwrap(last.id)])
              /\ last' = [last EXCEPT !.pc = "return_ok", !.ret = Some(assets_next_id),
                                      !.trace = Append(@, "new_asset")]
    /\ UNCHANGED <<dataVars, files, files_next_id, file_hist, file_removed,
                   asset_removed, import_log>>
    /\ UNCHANGED imageVars

\* Ok(asset_id)
ImportReturnOk ==
    /\ last.pc = "return_ok"
    /\ import_log' = Append(import_log, "Ok")
    /\ last' = [last EXCEPT !.pc = "done", !.result = "Ok", !.trace = Append(@, "return")]
    /\ UNCHANGED <<dataVars, storeVars, file_hist, asset_hist, file_removed, asset_removed>>
    /\ UNCHANGED imageVars

NextSteps ==
    \/ \E s \in SaveDirs, f \in FilesDirs : DataNewOk(s, f)
    \/ \E t \in Titles, p \in ImportPaths : ImportCall(t, p)
    \/ ImportClassify
    \/ ImportNewFile
    \/ ImportCopy
    \/ ImportRemove
    \/ ImportReturnErr
    \/ ImportNewAsset
    \/ ImportReturnOk

\* One Data whose imports run statement by statement, one call at a time.
SpecSteps == Init /\ [][NextSteps]_vars

----------------------------------------------------------------------------
(* The two stores used on their own, as the unit tests of src/stores use them *)

\* FileStore::new_file(title, extension): the record is inserted, then the
\* counter is advanced; a panic of that addition leaves the inserted record.
FileNewFile(title, extension) ==
    /\ Len(file_hist) < MaxFiles
    /\ LET res == new_file_result(files_next_id, title, extension)
       IN  /\ files' = new_file_files(files, files_next_id, title, extension)
           /\ \E sum \in add_one_outcomes(files_next_id) :
                IF sum = "panic"
                THEN /\ last' = [NoCall EXCEPT !.op = "new_file", !.title = title,
                                     !.extension = Some(extension),
                                     !.result = "panic", !.pre = Snapshot]
                     /\ UNCHANGED <<files_next_id, file_hist>>
                ELSE /\ files_next_id' = new_file_next_id(files_next_id)
                     /\ file_hist' = Append(file_hist,
                                        [id |-> res[1], title |-> title,
                                         extension |-> extension, path |-> res[2]])
                     /\ last' = [NoCall EXCEPT !.op = "new_file", !.title = title,
                                     !.extension = Some(extension),
                                     !.ret = Some(res[1]), !.ret_path = Some(res[2]),
                                     !.pre = Snapshot]
    /\ UNCHANGED <<dataVars, assets, assets_next_id, asset_hist, file_removed,
                   asset_removed, import_log>>
    /\ UNCHANGED imageVars

\* FileStore::get(id)
FileGet(id) ==
    /\ last' = [NoCall EXCEPT !.op = "file_get", !.id = Some(id),
                              !.item = FileStore_get(files, id), !.pre = Snapshot]
    /\ UNCHANGED <<dataVars, storeVars, histVars>>
    /\ UNCHANGED imageVars

\* FileStore::count()
FileCount ==
    /\ last' = [NoCall EXCEPT !.op = "file_count",
                              !.ret = Some(FileStore_count(files)), !.pre = Snapshot]
    /\ UNCHANGED <<dataVars, storeVars, histVars>>
    /\ UNCHANGED imageVars

\* FileStore::remove(id)
FileRemove(id) ==
    /\ files' = FileStore_remove(files, id)
    /\ file_removed' = file_removed \cup (DOMAIN files \ DOMAIN files')
    /\ assets' = FileStore_remove_assets(assets, id)
    /\ last' = [NoCall EXCEPT !.op = "file_remove", !.id = Some(id),
                              !.item = MapGet(files, id), !.pre = Snapshot]
    /\ UNCHANGED <<dataVars, files_next_id, assets_next_id, file_hist,
                   asset_hist, asset_removed, import_log>>
    /\ UNCHANGED imageVars

\* AssetStore::new_asset(title, file)
AssetNewAsset(title, file) ==
    /\ Len(asset_hist) < MaxAssets
    /\ assets' = new_asset_assets(assets, assets_next_id, title, file)
    /\ \E sum \in add_one_outcomes(assets_next_id) :
         IF sum = "panic"
         THEN /\ last' = [NoCall EXCEPT !.op = "new_asset", !.title = title,
                              !.id = Some(file), !.result = "panic", !.pre = Snapshot]
              /\ UNCHANGED <<assets_next_id, asset_hist>>
         ELSE /\ assets_next_id' = new_asset_next_id(assets_next_id)
              /\ asset_hist' = Append(asset_hist,
                                 [id |-> assets_next_id, title |-> title, file |-> file])
              /\ last' = [NoCall EXCEPT !.op = "new_asset", !.title = title,
                              !.id = Some(file), !.ret = Some(assets_next_id),
                              !.pre = Snapshot]
    /\ UNCHANGED <<dataVars, files, files_next_id, file_hist, file_removed,
                   asset_removed, import_log>>
    /\ UNCHANGED imageVars

\* AssetStore::get(id)
AssetGet(id) ==
    /\ last' = [NoCall EXCEPT !.op = "asset_get", !.id = Some(id),
                              !.item = AssetStore_get(assets, id), !.pre = Snapshot]
    /\ UNCHANGED <<dataVars, storeVars, histVars>>
    /\ UNCHANGED imageVars

\* AssetStore::count()
AssetCount ==
    /\ last' = [NoCall EXCEPT !.op = "asset_count",
                              !.ret = Some(AssetStore_count(assets)), !.pre = Snapshot]
    /\ UNCHANGED <<dataVars, storeVars, histVars>>
    /\ UNCHANGED imageVars

\* AssetStore::remove(id)
AssetRemove(id) ==
    /\ assets' = AssetStore_remove(assets, id)
    /\ asset_removed' = asset_removed \cup (DOMAIN assets \ DOMAIN assets')
    /\ last' = [NoCall EXCEPT !.op = "asset_remove", !.id = Some(id),
                              !.item = MapGet(assets, id), !.pre = Snapshot]
    /\ UNCHANGED <<dataVars, files, files_next_id, assets_next_id, file_hist,
                   asset_hist, file_removed, import_log>>
    /\ UNCHANGED imageVars

\* FileStore::new() and AssetStore::new(); no Data.
InitStores ==
    /\ constructed = FALSE
    /\ arg_save_dir = None
    /\ arg_files_dir = None
    /\ save_dir = None
    /\ files_dir = None
    /\ dirs = {}
    /\ disk = <<>>
    /\ files = <<>>
    /\ files_next_id = 0
    /\ assets = <<>>
    /\ assets_next_id = 0
    /\ file_hist = <<>>
    /\ asset_hist = <<>>
    /\ file_removed = {}
    /\ asset_removed = {}
    /\ import_log = <<>>
    /\ images = <<>>
    /\ images_next_id = 0
    /\ last = NoCall

NextStores ==
    \/ \E t \in Titles, e \in KnownExtensions : FileNewFile(t, e)
    \/ \E id \in ProbeIds : FileGet(id)
    \/ FileCount
    \/ \E id \in ProbeIds : FileRemove(id)
    \/ \E t \in Titles, f \in AssetFileArgs : AssetNewAsset(t, f)
    \/ \E id \in ProbeIds : AssetGet(id)
    \/ AssetCount
    \/ \E id \in ProbeIds : AssetRemove(id)

\* One FileStore and one AssetStore, called in any order.
SpecStores == InitStores /\ [][NextStores]_vars

----------------------------------------------------------------------------
(* A FileStore whose counter is about to reach u32::MAX *)

\* The ids get and remove are called with in such a store.
WrapProbeIds == {0, U32Max}

\* A FileStore that has handed out every FileId below next_id, with next_id at
\* u32::MAX or one before it, and of whose records none or the first is left.
\* file_hist holds the calls of those before whose record is left.
InitWrap ==
    /\ constructed = FALSE
    /\ arg_save_dir = None
    /\ arg_files_dir = None
    /\ save_dir = None
    /\ files_dir = None
    /\ dirs = {}
    /\ disk = <<>>
    /\ files_next_id \in {U32Max - 1, U32Max}
    /\ \E kept \in {{}, {0}} :
         /\ files = [id \in kept |-> NewFileRecord(id, "My Title", Png)]
         /\ file_hist = IF kept = {} THEN <<>>
                        ELSE <<[id |-> 0, title |-> "My Title", extension |-> Png,
                                path |-> File_file_name(NewFileRecord(0, "My Title", Png))]>>
    /\ assets = <<>>
    /\ assets_next_id = 0
    /\ asset_hist = <<>>
    /\ file_removed = {}
    /\ asset_removed = {}
    /\ import_log = <<>>
    /\ images = <<>>
    /\ images_next_id = 0
    /\ last = NoCall

\* The last call panicked: nothing catches the unwinding, the program has ended.
Panicked == last.result = "panic"

NextWrap ==
    \/ \E t \in Titles, e \in KnownExtensions : ~Panicked /\ FileNewFile(t, e)
    \/ \E id \in WrapProbeIds : ~Panicked /\ FileGet(id)
    \/ ~Panicked /\ FileCount
    \/ \E id \in WrapProbeIds : ~Panicked /\ FileRemove(id)

\* A FileStore used across the end of the u32 range.
SpecWrap == InitWrap /\ [][NextWrap]_vars

----------------------------------------------------------------------------
(* The ImageStore on its own *)

\* ImageStore::new_image(path): None and nothing done if the path has no image
\* extension; else the image is inserted, then the counter is advanced.
ImageNewImage(path) ==
    /\ path_has_image_extension(path) => images_next_id < MaxImages
    /\ IF ~path_has_image_extension(path)
       THEN /\ last' = [NoCall EXCEPT !.op = "new_image", !.text = path,
                                      !.pre = Snapshot]
            /\ UNCHANGED imageVars
       ELSE /\ images' = new_image_files(images, images_next_id, path)
            /\ \E sum \in add_one_outcomes(images_next_id) :
                 IF sum = "panic"
                 THEN /\ last' = [NoCall EXCEPT !.op = "new_image", !.text = path,
                                                !.result = "panic", !.pre = Snapshot]
                      /\ UNCHANGED images_next_id
                 ELSE /\ images_next_id' = new_image_next_id(images_next_id)
                      /\ last' = [NoCall EXCEPT !.op = "new_image", !.text = path,
                                                !.ret = Some(images_next_id),
                                                !.pre = Snapshot]
    /\ UNCHANGED <<dataVars, storeVars, histVars>>

\* ImageStore::get(id)
ImageGet(id) ==
    /\ last' = [NoCall EXCEPT !.op = "image_get", !.id = Some(id),
                              !.item = ImageStore_get(images, id), !.pre = Snapshot]
    /\ UNCHANGED <<dataVars, storeVars, imageVars, histVars>>

\* ImageStore::count()
ImageCount ==
    /\ last' = [NoCall EXCEPT !.op = "image_count",
                              !.ret = Some(ImageStore_count(images)), !.pre = Snapshot]
    /\ UNCHANGED <<dataVars, storeVars, imageVars, histVars>>

NextImages ==
    \/ \E path \in ImagePaths : ImageNewImage(path)
    \/ \E id \in ProbeIds : ImageGet(id)
    \/ ImageCount

\* One ImageStore, from ImageStore::new().
SpecImages == InitStores /\ [][NextImages]_vars

----------------------------------------------------------------------------
(* The extension policy on its own *)

\* KnownExtension::from_str(string)
ClassifyStr(string) ==
    /\ last' = [NoCall EXCEPT !.op = "from_str", !.text = string,
                              !.ret = from_str(string), !.pre = Snapshot]
    /\ UNCHANGED <<dataVars, storeVars, histVars>>
    /\ UNCHANGED imageVars

\* KnownExtension::from_path(path)
ClassifyPath(path) ==
    /\ last' = [NoCall EXCEPT !.op = "from_path", !.text = path,
                              !.ret = from_path(path), !.pre = Snapshot]
    /\ UNCHANGED <<dataVars, storeVars, histVars>>
    /\ UNCHANGED imageVars

NextExt ==
    \/ \E string \in ExtStrings : ClassifyStr(string)
    \/ \E path \in ClassifyPaths : ClassifyPath(path)
    \/ \E t \in Titles : Len(file_hist) < 1 /\ FileNewFile(t, Png)

\* The extension policy called on every input, beside a FileStore in use.
SpecExt == InitStores /\ [][NextExt]_vars

----------------------------------------------------------------------------
(* The naming of stored files on its own *)

\* File::file_name() on a File with the given fields.
FileFileName(id, title, extension) ==
    /\ last' = [NoCall EXCEPT !.op = "file_name", !.title = title, !.id = Some(id),
                    !.extension = Some(extension),
                    !.ret_path = Some(File_file_name(NewFileRecord(id, title, extension))),
                    !.pre = Snapshot]
    /\ UNCHANGED <<dataVars, storeVars, histVars>>
    /\ UNCHANGED imageVars

NextNames ==
    \/ \E t \in Titles, e \in KnownExtensions : FileNewFile(t, e)
    \/ \E id \in SampleIds, t \in Titles, e \in KnownExtensions : FileFileName(id, t, e)

\* File names, of the files a FileStore creates and of files with larger ids.
SpecNames == InitStores /\ [][NextNames]_vars

----------------------------------------------------------------------------
(* Properties of the Data coordinator, checked under Spec *)

IsImport == last.op = "add_asset_from_disk"

\* C1: an import whose extension is known and whose copy fails returns an
\* error, leaves the FileStore's records (and its count) as they were before
\* the call and creates no asset.
C1_FailedCopyIsRolledBack ==
    (IsImport /\ last.extension # None /\ last.copy \in {"failed", "partial"}) =>
        /\ last.result = "CopyFailed"
        /\ last.ret = None
        /\ files = last.pre.files
        /\ FileStore_count(files) = FileStore_count(last.pre.files)
        /\ assets = last.pre.assets
        /\ AssetStore_count(assets) = AssetStore_count(last.pre.assets)

\* C1's case: the copy of a missing png fails while the FileStore holds a record.
C1_Witness ==
    /\ IsImport
    /\ last.text = Path_gone_png
    /\ last.copy = "failed"
    /\ last.pre.files # <<>>

\* C2: an import of a path without extension, or with one outside the
\* allow-list, fails and changes nothing: both stores, both counters and the
\* files on disk are as before; an import whose copy succeeds returns Ok and
\* raises both counts by exactly 1, before and after such a failure.
C2_UnsupportedExtensionChangesNothing ==
    /\ (IsImport /\ last.text \in {Path_a_pdf, Path_noext}) =>
          /\ last.result = "UnsupportedExtension"
          /\ last.ret = None
          /\ files = last.pre.files
          /\ files_next_id = last.pre.files_next_id
          /\ assets = last.pre.assets
          /\ assets_next_id = last.pre.assets_next_id
          /\ disk = last.pre.disk
          /\ dirs = last.pre.dirs
    /\ (IsImport /\ last.text \in {Path_a_png, Path_a_PNG} /\ last.copy = "copied") =>
          /\ last.result = "Ok"
          /\ FileStore_count(files) = FileStore_count(last.pre.files) + 1
          /\ AssetStore_count(assets) = AssetStore_count(last.pre.assets) + 1

\* C2's case: a png import, then a rejected one, then a png import again.
C2_Witness ==
    /\ import_log = <<"Ok", "UnsupportedExtension", "Ok">>
    /\ AssetStore_count(assets) = 2

\* C3: between operations, every record of the FileStore has its file, under
\* its storage file name, in the files directory Data::new was given.
C3_EveryRecordHasItsFile ==
    constructed =>
        \A id \in DOMAIN files :
            <<Unwrap(arg_files_dir), File_file_name(files[id])>> \in DOMAIN disk

\* C4: a successful import writes exactly one file, into the files directory
\* Data::new was given, named <decimal file id>.<ext>; the first one on a fresh
\* Data is 0.png.
C4_OneFileIntoFilesDir ==
    (IsImport /\ last.result = "Ok") =>
        LET id == Unwrap(last.id)
            name == FileId_to_string(id) \o <<".">> \o to_str(Unwrap(last.extension))
        IN  /\ last.written = {<<Unwrap(arg_files_dir), name>>}
            /\ <<Unwrap(arg_files_dir), name>> \in DOMAIN disk
            /\ (Len(import_log) = 1 => name = <<"0", ".", "p", "n", "g">>)

\* C6: after a failed copy the stores are as before the call except for the
\* FileStore's counter, which is one higher; the id of the record that was
\* rolled back is not in the store and no later call returns it.
C6_FailedCopyLeavesOnlyAHole ==
    /\ (IsImport /\ last.result = "CopyFailed") =>
          /\ files_next_id = last.pre.files_next_id + 1
          /\ files = last.pre.files
          /\ assets = last.pre.assets
          /\ assets_next_id = last.pre.assets_next_id
          /\ FileStore_get(files, Unwrap(last.id)) = None
          /\ Unwrap(last.id) = last.pre.files_next_id
    /\ \A id \in file_removed :
          /\ FileStore_get(files, id) = None
          /\ Cardinality({i \in 1..Len(file_hist) : file_hist[i].id = id}) = 1
          /\ \A a \in DOMAIN assets : assets[a].file # id

\* C6's case: an import succeeds after the first import's copy failed.
C6_Witness ==
    /\ IsImport
    /\ last.result = "Ok"
    /\ file_removed = {0}
    /\ last.id = Some(1)
    /\ files_next_id = 2

----------------------------------------------------------------------------
(* Properties of the stores, checked under SpecStores *)

StrictlyIncreasing(hist) ==
    \A i, j \in 1..Len(hist) : i < j => hist[i].id < hist[j].id

\* C5: within a store the identifiers returned are strictly increasing in
\* call order (so pairwise distinct), and an identifier whose record was removed
\* is not handed out again.
C5_IdsNeverRepeat ==
    /\ StrictlyIncreasing(file_hist)
    /\ StrictlyIncreasing(asset_hist)
    /\ \A i \in 1..Len(file_hist) : file_hist[i].id >= 0
    /\ \A i \in 1..Len(asset_hist) : asset_hist[i].id >= 0
    /\ (last.op = "new_file" => last.ret \cap file_removed = {})
    /\ (last.op = "new_asset" => last.ret \cap asset_removed = {})

\* C5's case: in each store a record was removed between two creations.
C5_Witness ==
    /\ last.op = "new_file"
    /\ Len(file_hist) >= 2
    /\ 0 \in file_removed
    /\ Len(asset_hist) = 2
    /\ 0 \in asset_removed

Allocated(hist) == {hist[i].id : i \in 1..Len(hist)}

\* C7: count() is the number of live records: creations minus removals of
\* present ids. A creation raises it by 1, the removal of a present id lowers it
\* by 1 and returns the record, and get on a removed id returns nothing.
C7_CountIsLiveRecords ==
    /\ FileStore_count(files) = Len(file_hist) - Cardinality(file_removed)
    /\ AssetStore_count(assets) = Len(asset_hist) - Cardinality(asset_removed)
    /\ DOMAIN files = Allocated(file_hist) \ file_removed
    /\ DOMAIN assets = Allocated(asset_hist) \ asset_removed
    /\ (last.op = "file_count" => last.ret = Some(Cardinality(DOMAIN files)))
    /\ (last.op = "asset_count" => last.ret = Some(Cardinality(DOMAIN assets)))
    /\ (last.op = "new_file" =>
          FileStore_count(files) = FileStore_count(last.pre.files) + 1)
    /\ (last.op = "new_asset" =>
          AssetStore_count(assets) = AssetStore_count(last.pre.assets) + 1)
    /\ (last.op = "file_remove" /\ Unwrap(last.id) \in DOMAIN last.pre.files =>
          /\ FileStore_count(files) = FileStore_count(last.pre.files) - 1
          /\ last.item = Some(last.pre.files[Unwrap(last.id)]))
    /\ (last.op = "asset_remove" /\ Unwrap(last.id) \in DOMAIN last.pre.assets =>
          /\ AssetStore_count(assets) = AssetStore_count(last.pre.assets) - 1
          /\ last.item = Some(last.pre.assets[Unwrap(last.id)]))
    /\ (last.op = "file_get" /\ Unwrap(last.id) \in file_removed => last.item = None)
    /\ (last.op = "asset_get" /\ Unwrap(last.id) \in asset_removed => last.item = None)

\* C7's case: get on the id of a removed file, after the store was filled.
C7_Witness ==
    /\ last.op = "file_get"
    /\ last.id = Some(0)
    /\ 0 \in file_removed
    /\ Len(file_hist) = MaxFiles
    /\ FileStore_count(files) = MaxFiles - 1

\* C8: after (id, path) = new_file(title, ext), get(id) is a record with that
\* title and extension, no tags, and file_name() equal to path; get on an
\* identifier that was never allocated returns nothing.
C8_NewFileRoundTrip ==
    /\ last.op = "new_file" =>
          LET got == FileStore_get(files, Unwrap(last.ret))
          IN  /\ got # None
              /\ Unwrap(got).title = last.title
              /\ Some(Unwrap(got).extension) = last.extension
              /\ Unwrap(got).system_tags = {}
              /\ Some(File_file_name(Unwrap(got))) = last.ret_path
    /\ \A id \in 0..(MaxFiles + 1) :
          id \notin Allocated(file_hist) => FileStore_get(files, id) = None
    /\ (last.op = "file_get" /\ Unwrap(last.id) \notin Allocated(file_hist) =>
          last.item = None)

\* C8's case: a second file is created, with the title of the unit test.
C8_Witness ==
    /\ last.op = "new_file"
    /\ last.title = "!@@#$@#@"
    /\ Len(file_hist) = 2
    /\ file_hist[1].title = "My Title"

----------------------------------------------------------------------------
(* Properties of the file names, checked under SpecNames *)

DigitValue(c) ==
    IF \E d \in 1..10 : DecimalDigits[d] = c
    THEN (CHOOSE d \in 1..10 : DecimalDigits[d] = c) - 1
    ELSE -1

RECURSIVE DecimalValue(_)
DecimalValue(s) ==
    IF s = <<>> THEN 0
    ELSE 10 * DecimalValue(SubSeq(s, 1, Len(s) - 1)) + DigitValue(s[Len(s)])

\* s is the decimal numeral of n: digits only, no leading zero, value n.
IsDecimalOf(s, n) ==
    /\ s # <<>>
    /\ \A i \in 1..Len(s) : DigitValue(s[i]) >= 0
    /\ (Len(s) > 1 => s[1] # "0")
    /\ DecimalValue(s) = n

ExtensionText(extension) == IF extension = Png THEN <<"p", "n", "g">> ELSE <<"?">>

Stem(name) == SubSeq(name, 1, LastDot(name) - 1)
Suffix(name) == SubSeq(name, LastDot(name) + 1, Len(name))

\* name is <decimal id>.<extension string>
IsIdDotExt(name, id, extension) ==
    /\ LastDot(name) > 1
    /\ IsDecimalOf(Stem(name), id)
    /\ Suffix(name) = ExtensionText(extension)

\* C9: the file name new_file returns is the decimal identifier, a dot and the
\* extension string, whatever the title; two files of one store have different
\* names, and with consecutive ids and one extension only the stems differ.
C9_FileNameFromIdAndExtension ==
    /\ \A i \in 1..Len(file_hist) :
          /\ IsIdDotExt(file_hist[i].path, file_hist[i].id, file_hist[i].extension)
          /\ \A t \in Titles :
                File_file_name(NewFileRecord(file_hist[i].id, t, file_hist[i].extension))
                    = file_hist[i].path
    /\ (last.op = "file_name" =>
          IsIdDotExt(Unwrap(last.ret_path), Unwrap(last.id), Unwrap(last.extension)))
    /\ \A i, j \in 1..Len(file_hist) : i # j => file_hist[i].path # file_hist[j].path
    /\ \A i \in 1..(Len(file_hist) - 1) :
          (/\ file_hist[i + 1].id = file_hist[i].id + 1
           /\ file_hist[i + 1].extension = file_hist[i].extension) =>
              /\ Suffix(file_hist[i + 1].path) = Suffix(file_hist[i].path)
              /\ Stem(file_hist[i + 1].path) # Stem(file_hist[i].path)

\* C9's case: a store created files with different titles, and the name of a
\* file with a several-digit id is asked for.
C9_Witness ==
    /\ last.op = "file_name"
    /\ last.id = Some(65535)
    /\ last.ret_path = Some(<<"6", "5", "5", "3", "5", ".", "p", "n", "g">>)
    /\ Len(file_hist) = MaxFiles
    /\ file_hist[1].title # file_hist[2].title

----------------------------------------------------------------------------
(* Properties of the extension policy, checked under SpecExt *)

\* s is png in some capitalisation.
IsPngSpelling(s) ==
    /\ Len(s) = 3
    /\ s[1] \in {"p", "P"}
    /\ s[2] \in {"n", "N"}
    /\ s[3] \in {"g", "G"}

\* The paths of ClassifyPaths whose extension is png in some capitalisation.
PngPaths ==
    { Path_a_png, Path_a_PNG, Path_gone_png,
      <<"a", ".", "p", "n", "g", "/">>,
      <<"a", ".", "p", "n", "g", "/", ".">>,
      <<"a", ".", "p", "d", "f", ".", "p", "N", "g">>,
      <<"a", ".", ".", "P", "n", "G">>,
      <<InvalidByte, ".", "p", "n", "g">> }

\* C10: classification yields Png for every capitalisation of png and None
\* for every other input, and leaves the stores as they were.
C10_ClassificationIsCaseInsensitive ==
    /\ (last.op = "from_str" =>
          last.ret = IF IsPngSpelling(last.text) THEN Some(Png) ELSE None)
    /\ (last.op = "from_path" =>
          last.ret = IF last.text \in PngPaths THEN Some(Png) ELSE None)
    /\ (last.op \in {"from_str", "from_path"} =>
          /\ files = last.pre.files
          /\ files_next_id = last.pre.files_next_id
          /\ assets = last.pre.assets
          /\ assets_next_id = last.pre.assets_next_id)

\* C10's case: a mixed-case png is classified beside a store that holds a file.
C10_Witness ==
    /\ last.op = "from_str"
    /\ last.text = <<"P", "n", "G">>
    /\ last.ret = Some(Png)
    /\ files # <<>>

----------------------------------------------------------------------------
(* Further properties of the Data coordinator, checked under Spec *)

\* C11: a successful import returns an AssetId whose asset has the given title
\* and refers to the FileId allocated in the same call; that FileId is in the
\* FileStore with the same title; asset_count and the FileStore's count have
\* each grown by exactly 1; get_asset on a returned id yields that asset.
C11_ImportCreatesAssetAndFile ==
    /\ (IsImport /\ last.result = "Ok") =>
          LET asset == AssetStore_get(assets, Unwrap(last.ret))
              file == FileStore_get(files, Unwrap(last.id))
          IN  /\ last.ret # None
              /\ asset = Some([title |-> last.title, file |-> Unwrap(last.id)])
              /\ Unwrap(last.id) = last.pre.files_next_id
              /\ Unwrap(last.id) \notin DOMAIN last.pre.files
              /\ file # None
              /\ Unwrap(file).title = last.title
              /\ Unwrap(file).id = Unwrap(last.id)
              /\ AssetStore_count(assets) = AssetStore_count(last.pre.assets) + 1
              /\ FileStore_count(files) = FileStore_count(last.pre.files) + 1
    /\ (last.op = "get_asset" =>
          \A i \in 1..Len(asset_hist) :
              asset_hist[i].id = Unwrap(last.id) =>
                  last.item = Some([title |-> asset_hist[i].title,
                                    file |-> asset_hist[i].file]))
    /\ (last.op = "asset_count" =>
          last.ret = Some(Cardinality({i \in 1..Len(import_log) : import_log[i] = "Ok"})))

\* C11's case: an import succeeds after a failed one, so that the asset's id (0)
\* and its file's id (1) differ, with the second title.
C11_Witness ==
    /\ IsImport
    /\ last.result = "Ok"
    /\ last.title = "!@@#$@#@"
    /\ last.ret = Some(0)
    /\ last.id = Some(1)

----------------------------------------------------------------------------
(* Further properties of the stores, checked under SpecStores *)

\* C12: new_asset(title, file_id) returns a fresh AssetId and stores
\* (title, file_id) whatever file_id is, also when no FileStore holds a record
\* for it (never allocated, or removed); get on the returned id reports exactly
\* that title and file_id.
C12_NewAssetStoresUnconditionally ==
    last.op = "new_asset" =>
        /\ last.ret = Some(last.pre.assets_next_id)
        /\ Unwrap(last.ret) \notin DOMAIN last.pre.assets
        /\ Unwrap(last.ret) \notin asset_removed
        /\ \A i \in 1..(Len(asset_hist) - 1) : asset_hist[i].id # Unwrap(last.ret)
        /\ AssetStore_get(assets, Unwrap(last.ret))
              = Some([title |-> last.title, file |-> Unwrap(last.id)])
        /\ \A a \in DOMAIN last.pre.assets : assets[a] = last.pre.assets[a]

\* C12's case: an asset is created for a FileId that was never allocated, after
\* one for a FileId whose record was removed.
C12_Witness ==
    /\ last.op = "new_asset"
    /\ last.id = Some(MaxFiles + 1)
    /\ Unwrap(last.id) \notin Allocated(file_hist)
    /\ Len(asset_hist) = 2
    /\ asset_hist[1].file = 0
    /\ 0 \in file_removed
    /\ files = <<>>

----------------------------------------------------------------------------
(* The FileStore at the end of the u32 range, checked under SpecWrap *)

\* C13: new_file never fails, whatever the state of the store, also with the
\* next-id counter at u32::MAX: it returns an identifier that no earlier call
\* returned and that names no record of the store, and leaves the records the
\* store held as they were.
C13_NewFileNeverFailsNorRepeats ==
    last.op = "new_file" =>
        /\ last.result # "panic"
        /\ last.ret # None
        /\ Unwrap(last.ret) \notin DOMAIN last.pre.files
        /\ \A i \in 1..(Len(file_hist) - 1) : file_hist[i].id # Unwrap(last.ret)
        /\ \A f \in DOMAIN last.pre.files : FileStore_get(files, f) = Some(last.pre.files[f])

----------------------------------------------------------------------------
(* Removal and immutability in the Data coordinator, checked under Spec *)

\* C14: in every step of the coordinator, a File record that is in the store
\* stays in it unchanged; a record is removed only by an import whose copy
\* failed, and then it is the one record that same call allocated; an Asset
\* record that is in the store stays in it with its title and file reference,
\* and the asset count never decreases.
C14_OnlyCompensatingRemoval ==
    [][ /\ \A f \in DOMAIN files : FileStore_get(files', f) = Some(files[f])
        /\ file_removed' # file_removed =>
              /\ last'.op = "add_asset_from_disk"
              /\ last'.result = "CopyFailed"
              /\ file_removed' = file_removed \cup {Unwrap(last'.id)}
              /\ Unwrap(last'.id) = files_next_id
              /\ Unwrap(last'.id) \notin DOMAIN files
              /\ files' = files
        /\ \A a \in DOMAIN assets : AssetStore_get(assets', a) = Some(assets[a])
        /\ AssetStore_count(assets') >= AssetStore_count(assets)
        /\ asset_removed' = asset_removed
      ]_vars

\* C14's case: a second failed import has removed its own record while the
\* store holds a file and an asset created before.
C14_Witness ==
    /\ IsImport
    /\ last.result = "CopyFailed"
    /\ file_removed = {0, 2}
    /\ DOMAIN files = {1}
    /\ DOMAIN assets = {0}
    /\ assets = last.pre.assets

\* C15: when Data::new(save_dir, files_dir) has returned Ok, the save directory
\* and the files directory it was given both exist, whichever of them existed
\* before, and both stores are empty with their counters at 0; the two
\* directories still exist in every later state.
C15_NewCreatesDirsAndEmptyStores ==
    /\ (last.op = "Data::new" /\ last.result = "Ok") =>
          /\ constructed
          /\ Unwrap(arg_save_dir) \in dirs
          /\ Unwrap(arg_files_dir) \in dirs
          /\ last.pre.dirs \subseteq dirs
          /\ FileStore_count(files) = 0
          /\ AssetStore_count(assets) = 0
          /\ files_next_id = 0
          /\ assets_next_id = 0
    /\ constructed => {Unwrap(arg_save_dir), Unwrap(arg_files_dir)} \subseteq dirs

\* C15's case: Data::new succeeded with two different directories of which
\* none existed before.
C15_Witness ==
    /\ last.op = "Data::new"
    /\ last.result = "Ok"
    /\ last.pre.dirs = {}
    /\ arg_save_dir = Some("ak")
    /\ arg_files_dir = Some("ak/files")
    /\ dirs = {"ak", "ak/files"}

----------------------------------------------------------------------------
(* The order of the steps of one import, checked under SpecSteps *)

\* The positions in the running call's trace at which it took the step.
StepsAt(step) == {i \in 1..Len(last.trace) : last.trace[i] = step}

\* The managed file of a File record is on disk, written by a completed copy.
CopyCompleted(file) ==
    LET dest == <<Unwrap(files_dir), File_file_name(file)>>
    IN  dest \in DOMAIN disk /\ disk[dest] # <<"partial">>

\* C16: within one add_asset_from_disk call the File record is allocated before
\* the copy is attempted (it is in the store, and nothing is written, when the
\* copy is about to start), the copy is attempted at most once, a failed copy
\* is followed by the removal of the record before the error is returned, and
\* new_asset is called only after a copy that succeeded; every asset in the
\* store refers to a file whose copy completed and whose record was not removed.
C16_StepsAreOrdered ==
    /\ IsImport =>
          /\ Cardinality(StepsAt("copy")) <= 1
          /\ \A c \in StepsAt("copy") : \E n \in StepsAt("new_file") : n < c
          /\ last.pc = "copy" =>
                /\ FileStore_get(files, Unwrap(last.id)) # None
                /\ StepsAt("copy") = {}
                /\ disk = last.pre.disk
          /\ \A a \in StepsAt("new_asset") :
                /\ \E c \in StepsAt("copy") : c < a
                /\ last.copy = "copied"
          /\ last.copy \in {"failed", "partial"} =>
                /\ StepsAt("new_asset") = {}
                /\ assets = last.pre.assets
          /\ \A r \in StepsAt("return") :
                last.copy \in {"failed", "partial"} =>
                    /\ last.result = "CopyFailed"
                    /\ \E m \in StepsAt("remove"), c \in StepsAt("copy") : c < m /\ m < r
                    /\ FileStore_get(files, Unwrap(last.id)) = None
          /\ \A m \in StepsAt("remove") : last.copy \in {"failed", "partial"}
    /\ \A a \in DOMAIN assets :
          /\ assets[a].file \notin file_removed
          /\ FileStore_get(files, assets[a].file) # None
          /\ CopyCompleted(files[assets[a].file])

\* C16's case: a call has returned the error after a copy that broke off
\* partway and the removal, with an asset of an earlier import in the store.
C16_Witness ==
    /\ IsImport
    /\ last.trace = <<"classify", "new_file", "copy", "remove", "return">>
    /\ last.copy = "partial"
    /\ last.result = "CopyFailed"
    /\ DOMAIN assets = {0}

----------------------------------------------------------------------------
(* Removal from the stores, checked under SpecStores *)

\* What remove(id) must have done to a store whose records were before and are
\* after, having returned item.
RemovedExactly(before, after, id, item) ==
    /\ item = MapGet(before, id)
    /\ id \in DOMAIN before => item # None
    /\ id \notin DOMAIN before => item = None /\ after = before
    /\ DOMAIN after = DOMAIN before \ {id}
    /\ \A other \in DOMAIN after : after[other] = before[other]

\* C17: remove(id), on the FileStore and on the AssetStore, deletes and
\* returns the record of id if there is one and otherwise returns nothing and
\* changes nothing; every other record and both next-id counters are as
\* before; removing the same id once more returns nothing and changes nothing.
C17_RemoveDeletesOnlyThatRecord ==
    /\ last.op = "file_remove" =>
          /\ RemovedExactly(last.pre.files, files, Unwrap(last.id), last.item)
          /\ files_next_id = last.pre.files_next_id
          /\ FileStore_get(files, Unwrap(last.id)) = None
          /\ FileStore_remove(files, Unwrap(last.id)) = files
    /\ last.op = "asset_remove" =>
          /\ RemovedExactly(last.pre.assets, assets, Unwrap(last.id), last.item)
          /\ assets_next_id = last.pre.assets_next_id
          /\ AssetStore_get(assets, Unwrap(last.id)) = None
          /\ AssetStore_remove(assets, Unwrap(last.id)) = assets

\* C17's case: the first file is removed a second time from a store that
\* holds another record.
C17_Witness ==
    /\ last.op = "file_remove"
    /\ last.id = Some(0)
    /\ 0 \in file_removed
    /\ last.item = None
    /\ DOMAIN last.pre.files = {1}
    /\ files_next_id = 2

\* C18: FileStore::remove leaves the AssetStore as it was: the same assets
\* with the same titles and file references, the same count and the same
\* counter; an asset that refers to the removed file keeps the reference, to
\* which the FileStore now has no record.
C18_RemoveFileLeavesAssets ==
    last.op = "file_remove" =>
        /\ assets = last.pre.assets
        /\ assets_next_id = last.pre.assets_next_id
        /\ AssetStore_count(assets) = AssetStore_count(last.pre.assets)
        /\ \A a \in DOMAIN last.pre.assets :
              last.pre.assets[a].file = Unwrap(last.id) =>
                  /\ AssetStore_get(assets, a) = Some(last.pre.assets[a])
                  /\ FileStore_get(files, Unwrap(AssetStore_get(assets, a)).file) = None

\* C18's case: the record of the first file was removed while an asset refers
\* to it and another asset refers to another FileId.
C18_Witness ==
    /\ last.op = "file_remove"
    /\ last.id = Some(0)
    /\ last.item # None
    /\ DOMAIN assets = {0, 1}
    /\ assets[0].file = 0
    /\ assets[1].file # 0
    /\ FileStore_get(files, 0) = None

----------------------------------------------------------------------------
(* The two counters over a sequence of imports, checked under SpecSteps *)

\* The step the running import takes in this transition.
Takes(step) == last'.trace = Append(last.trace, step)

\* The entries of import_log that are copy failures with fewer than k
\* successful imports logged before them: the failures before the k-th success.
FailuresBefore(k) ==
    {i \in 1..Len(import_log) :
        /\ import_log[i] = "CopyFailed"
        /\ Cardinality({j \in 1..(i - 1) : import_log[j] = "Ok"}) < k}

\* C19: the counters of the two stores move independently: the new_asset step
\* leaves the FileStore and its counter alone, the new_file and remove steps
\* leave the AssetStore and its counter alone. Over a sequence of imports the
\* AssetIds handed out are 0, 1, 2, ... without a hole, the FileIds are
\* 0, 1, 2, ... over all allocations, and the k-th asset created has AssetId
\* k - 1 and refers to FileId k - 1 plus the number of copy failures before it.
C19_CountersAreIndependent ==
    /\ [](/\ assets_next_id = Len(asset_hist)
          /\ files_next_id = Len(file_hist)
          /\ \A k \in 1..Len(file_hist) : file_hist[k].id = k - 1
          /\ \A k \in 1..Len(asset_hist) :
                /\ asset_hist[k].id = k - 1
                /\ asset_hist[k].file = (k - 1) + Cardinality(FailuresBefore(k))
          /\ (IsImport /\ last.result = "Ok") =>
                /\ last.ret = Some(Cardinality({i \in 1..Len(import_log) :
                                                    import_log[i] = "Ok"}) - 1)
                /\ last.id = Some(Unwrap(last.ret)
                                    + Cardinality({i \in 1..Len(import_log) :
                                                      import_log[i] = "CopyFailed"})))
    /\ [][/\ Takes("new_asset") =>
                /\ files_next_id' = files_next_id
                /\ files' = files
                /\ assets_next_id' = assets_next_id + 1
          /\ Takes("new_file") =>
                /\ assets_next_id' = assets_next_id
                /\ assets' = assets
                /\ files_next_id' = files_next_id + 1
          /\ Takes("remove") =>
                /\ assets_next_id' = assets_next_id
                /\ assets' = assets
                /\ files_next_id' = files_next_id
         ]_vars

\* C19's case: the second successful import, after one whose copy failed, has
\* returned AssetId 1, which refers to FileId 2.
C19_Witness ==
    /\ IsImport
    /\ import_log = <<"Ok", "CopyFailed", "Ok">>
    /\ last.result = "Ok"
    /\ last.ret = Some(1)
    /\ last.id = Some(2)
    /\ files_next_id = 3
    /\ assets_next_id = 2

----------------------------------------------------------------------------
(* Referential integrity of Data, checked under Spec *)

\* C20: in every state a Data is in between calls of its public operations,
\* each asset refers to a record that is in the FileStore, no two assets refer
\* to the same FileId, and there are as many assets as File records;
\* assets_iter yields exactly those assets.
C20_AssetsAndFilesCorrespond ==
    /\ \A a \in DOMAIN assets : FileStore_get(files, assets[a].file) # None
    /\ \A a, b \in DOMAIN assets : assets[a].file = assets[b].file => a = b
    /\ AssetStore_count(assets) = FileStore_count(files)
    /\ DOMAIN files = {assets[a].file : a \in DOMAIN assets}
    /\ last.op = "assets_iter" =>
          /\ Cardinality(last.items) = AssetStore_count(assets)
          /\ \A it \in last.items : FileStore_get(files, it[2].file) # None

\* C20's case: assets_iter on a Data with two assets, imported before and
\* after an import whose copy failed.
C20_Witness ==
    /\ last.op = "assets_iter"
    /\ import_log = <<"Ok", "CopyFailed", "Ok">>
    /\ Cardinality(last.items) = 2
    /\ DOMAIN files = {0, 2}
    /\ {it[2].file : it \in last.items} = {0, 2}

----------------------------------------------------------------------------
(* Properties of the ImageStore, checked under SpecImages *)

\* The paths of ImagePaths whose extension is png in some capitalisation.
PngImagePaths ==
    { Path_images_test_png, Path_image_PNG, Path_a_png,
      <<"a", ".", "p", "n", "g", "/", ".">>,
      <<"a", ".", "p", "d", "f", ".", "p", "N", "g">>,
      <<"a", ".", "P", "n", "G">>,
      <<InvalidByte, ".", "p", "n", "g">> }

\* C21: new_image returns None for a path without an extension or with one
\* that is not png, and then the store is as before: the same images, the
\* same count, the same next identifier. For a path whose extension is png in
\* any capitalisation it returns the identifier that was next, which named no
\* image before; the count grows by 1, get on that identifier returns the
\* given path and the images held before are as they were.
C21_NewImageRejectsOtherExtensions ==
    last.op = "new_image" =>
        IF last.text \in PngImagePaths
        THEN /\ last.ret = Some(last.pre.images_next_id)
             /\ ImageStore_get(last.pre.images, Unwrap(last.ret)) = None
             /\ ImageStore_count(images) = ImageStore_count(last.pre.images) + 1
             /\ images_next_id = last.pre.images_next_id + 1
             /\ ImageStore_get(images, Unwrap(last.ret)) = Some([path |-> last.text])
             /\ \A i \in DOMAIN last.pre.images : images[i] = last.pre.images[i]
        ELSE /\ last.ret = None
             /\ last.result # "panic"
             /\ images = last.pre.images
             /\ ImageStore_count(images) = ImageStore_count(last.pre.images)
             /\ images_next_id = last.pre.images_next_id

\* C21's case: a path whose extension lower-cases to a fullwidth p followed by
\* ng is rejected by a store that holds two images, one of them taken in as
\* .PNG, and the next image still gets the identifier 2.
C21_Witness ==
    /\ last.op = "new_image"
    /\ last.text = <<"a", ".", FullwidthCapitalP, "N", "G">>
    /\ last.ret = None
    /\ ImageStore_get(images, 1) = Some([path |-> Path_image_PNG])
    /\ ImageStore_count(images) = 2
    /\ images_next_id = 2

====
